---- MODULE Spec2Model ----
(***************************************************************************)
(* Model of the Talent8 MCP server: the data models (src/src/models.py),   *)
(* the Bedrock knowledge-base client (src/src/bedrock_client.py), the      *)
(* settings cache (src/src/config.py) and the tool entry point with its    *)
(* formatter (src/src/server.py).                                          *)
(*                                                                         *)
(* Conventions.  Python strings are TLA+ strings.  An Optional value is a  *)
(* sequence of length 0 (None / key absent) or 1 (the value).  A dict of   *)
(* strings is a sequence of <<key, value>> pairs in insertion order.  A    *)
(* relevance score is an integer number of thousandths (950 is 0.95).  A   *)
(* call that may raise returns [exc, msg, val]: exc = "" and val = <<v>>   *)
(* on a normal return, exc = the exception class and msg = str(e)          *)
(* otherwise.                                                              *)
(***************************************************************************)
EXTENDS Integers, Sequences, FiniteSets, TLC

VARIABLES
    _bedrock_client,   \* server.py global: None or the cached BedrockClient
    settings_cache,    \* config.py lru_cache of get_settings(): None or Settings
    env,               \* the process environment: None or the knowledge-base id
    constructed,       \* number of BedrockClient objects built so far
    calls,             \* number of tool invocations started so far
    pc,                \* per caller: position inside get_job_openings
    arg,               \* per caller: the (query_text, max_results) of the call
    settings,          \* per caller: self.settings of the BedrockClient being built
    built,             \* per caller: the object BedrockClient() returned
    client,            \* per caller: the local `client` of get_job_openings
    requests,          \* per caller: the client.retrieve calls of this invocation
    service,           \* per caller: what the service did with the request
    resp,              \* per caller: the local `response` of get_job_openings
    raised,            \* per caller: the exception raised inside the try block
    ret,               \* per caller: how the invocation ended
    pstage,            \* pure-function checks: "input", "parsed", "built", "formatted"
    pin,               \* pure-function checks: the drawn input
    pout               \* pure-function checks: the value computed from pin

server_vars == <<_bedrock_client, settings_cache, env, constructed, calls,
                 pc, arg, settings, built, client, requests, service, resp,
                 raised, ret>>
pure_vars == <<pstage, pin, pout>>
vars == <<_bedrock_client, settings_cache, env, constructed, calls,
          pc, arg, settings, built, client, requests, service, resp, raised, ret,
          pstage, pin, pout>>

----------------------------------------------------------------------------
(* Bounds of the model.                                                    *)

\* Tool invocations started in one behaviour.
MaxCalls == 2
\* Longest retrievalResults list / results list drawn as an input.
MaxEntries == 2

\* Callers that may be inside get_job_openings / get_bedrock_client at once.
\* Nothing is locked, so callers on different threads interleave at the
\* statements of get_bedrock_client, inside BedrockClient.__init__ (the
\* lru_cache lookup, Settings(), the cache store, boto3.client) and while
\* client.retrieve waits for the service; callers scheduled on one event
\* loop run one after the other (get_job_openings has no await), which are
\* the behaviours where a caller runs from Call to "done" without another
\* caller stepping in between.
Callers == {"c1", "c2"}

----------------------------------------------------------------------------
(* Python values.                                                          *)

None == << >>
Some(v) == <<v>>

Ok(v) == [exc |-> "", msg |-> "", val |-> <<v>>]
Raise(e, m) == [exc |-> e, msg |-> m, val |-> << >>]

\* dict.get(key, default) on a dict of strings
DictGet(d, key, default) ==
    IF \E i \in 1..Len(d) : d[i][1] = key
    THEN d[CHOOSE i \in 1..Len(d) : d[i][1] = key][2]
    ELSE default

\* `sub in s` on strings
Contains(s, sub) ==
    \E i \in 1..(Len(s) - Len(sub) + 1) : SubSeq(s, i, i + Len(sub) - 1) = sub

\* "\n".join(lines)
RECURSIVE Join(_)
Join(lines) ==
    IF Len(lines) = 0 THEN ""
    ELSE IF Len(lines) = 1 THEN lines[1]
    ELSE lines[1] \o "\n" \o Join(Tail(lines))

----------------------------------------------------------------------------
(* src/src/models.py                                                       *)

\* JobOpeningQuery.max_results: gt=0, le=100
MaxResultsLimit == 100
\* JobOpeningQuery.query_text: min_length=1
MinQueryLength == 1
\* JobOpeningResult.score: ge=0.0, le=1.0, in thousandths
ScoreMin == 0
ScoreMax == 1000

\* First line of str(e) of a pydantic ValidationError: every field is
\* validated and n is the number of fields that failed.
ValidationErrorMsg(n, model) ==
    ToString(n) \o " validation error" \o (IF n = 1 THEN "" ELSE "s")
        \o " for " \o model

\* JobOpeningQuery with max_results declared lt=100 instead of le=100.
JobOpeningQuery_LtLimit(query_text, max_results) ==
    LET errors == (IF Len(query_text) < MinQueryLength THEN 1 ELSE 0)
                  + (IF ~(max_results > 0 /\ max_results < MaxResultsLimit)
                     THEN 1 ELSE 0)
    IN  IF errors > 0
        THEN Raise("ValidationError", ValidationErrorMsg(errors, "JobOpeningQuery"))
        ELSE Ok([query_text |-> query_text, max_results |-> max_results])

\* Both fields are validated; the error reports each field that failed.
JobOpeningQuery(query_text, max_results) ==
    LET errors == (IF Len(query_text) < MinQueryLength THEN 1 ELSE 0)
                  + (IF ~(max_results > 0 /\ max_results <= MaxResultsLimit)
                     THEN 1 ELSE 0)
    IN  IF errors > 0
        THEN Raise("ValidationError", ValidationErrorMsg(errors, "JobOpeningQuery"))
        ELSE Ok([query_text |-> query_text, max_results |-> max_results])

SourceMetadata(type, s3_location, web_location) ==
    [type |-> type, s3_location |-> s3_location, web_location |-> web_location]

JobOpeningResult(content, score, metadata, source) ==
    IF score # None /\ ~(score[1] >= ScoreMin /\ score[1] <= ScoreMax)
    THEN Raise("ValidationError", ValidationErrorMsg(1, "JobOpeningResult"))
    ELSE Ok([content |-> content, score |-> score,
             metadata |-> metadata, source |-> source])

\* The field validator of total_results: runs only on a supplied value that
\* already passed the ge=0 constraint.  info_data is None when "results" is
\* not in info.data (the results field failed its own validation).
validate_total_results(v, info_data) ==
    IF info_data # None THEN Len(info_data[1]) ELSE v

\* JobOpeningsResponse(results=results, total_results=total) where total is
\* None when the keyword is omitted (the default 0 is then stored as is:
\* pydantic does not run validators on defaults).
JobOpeningsResponse(results, total) ==
    IF total = None
    THEN Ok([results |-> results, total_results |-> 0])
    ELSE IF total[1] < 0
    THEN Raise("ValidationError", ValidationErrorMsg(1, "JobOpeningsResponse"))
    ELSE Ok([results |-> results,
             total_results |-> validate_total_results(total[1], Some(results))])

----------------------------------------------------------------------------
(* src/src/bedrock_client.py                                               *)

\* A raw location dict is truthy when it has at least one key.
LocationTruthy(location_data) ==
    \/ location_data.type # None
    \/ location_data.s3Location # None
    \/ location_data.webLocation # None

_parse_source_metadata(location_data) ==
    LET source_type == IF location_data.type = None THEN "UNKNOWN"
                       ELSE location_data.type[1]
        s3_location == location_data.s3Location
        web_location == location_data.webLocation
    IN  SourceMetadata(source_type, s3_location, web_location)

\* _parse_retrieve_result reading the score as result_data.get("score", 0).
_parse_retrieve_result_ZeroScore(result_data) ==
    LET content_data == IF result_data.content = None
                        THEN [isdict |-> TRUE, items |-> << >>]
                        ELSE result_data.content[1]
        score == IF result_data.score = None THEN Some(0) ELSE result_data.score
        metadata == IF result_data.metadata = None THEN << >>
                    ELSE result_data.metadata[1]
        location_data == result_data.location
        source == IF location_data # None /\ LocationTruthy(location_data[1])
                  THEN Some(_parse_source_metadata(location_data[1]))
                  ELSE None
    IN  IF ~content_data.isdict
        THEN Raise("AttributeError", "'str' object has no attribute 'get'")
        ELSE JobOpeningResult(DictGet(content_data.items, "text", ""),
                              score, metadata, source)

\* result_data is [content, score, metadata, location], each Optional.  A
\* content value is [isdict, items]: a mapping with its items, or a value
\* without a get method.
_parse_retrieve_result(result_data) ==
    LET content_data == IF result_data.content = None
                        THEN [isdict |-> TRUE, items |-> << >>]
                        ELSE result_data.content[1]
        score == result_data.score
        metadata == IF result_data.metadata = None THEN << >>
                    ELSE result_data.metadata[1]
        location_data == result_data.location
        source == IF location_data # None /\ LocationTruthy(location_data[1])
                  THEN Some(_parse_source_metadata(location_data[1]))
                  ELSE None
    IN  IF ~content_data.isdict
        THEN Raise("AttributeError", "'str' object has no attribute 'get'")
        ELSE JobOpeningResult(DictGet(content_data.items, "text", ""),
                              score, metadata, source)

\* The request client.retrieve receives.
RetrieveRequest(self, query_text, max_results) ==
    [knowledgeBaseId |-> self.knowledge_base_id,
     text |-> query_text,
     numberOfResults |-> max_results]

\* retrieve_job_openings sending the request again after a failure.
RetrieveRequests_Retry(sent, self, query_text, max_results, outcome) ==
    IF outcome.kind = "response" THEN sent
    ELSE Append(sent, RetrieveRequest(self, query_text, max_results))

\* The requests of one call of retrieve_job_openings once the service has
\* answered the request sent: no except clause calls client.retrieve again.
RetrieveRequests(sent, self, query_text, max_results, outcome) == sent

\* The comprehension skipping the entries that fail to parse.
ParseAll_SkipUnparsed(retrieval_results) ==
    LET parsed == [i \in 1..Len(retrieval_results) |->
                      _parse_retrieve_result(retrieval_results[i])]
        kept == SelectSeq([i \in 1..Len(parsed) |-> parsed[i].val],
                          LAMBDA v : v # None)
    IN  Ok([i \in 1..Len(kept) |-> kept[i][1]])

\* The comprehension iterating reversed(retrieval_results).
ParseAll_Reversed(retrieval_results) ==
    LET n == Len(retrieval_results)
        parsed == [i \in 1..n |->
                      _parse_retrieve_result(retrieval_results[n + 1 - i])]
        bad == {i \in 1..n : parsed[i].exc # ""}
    IN  IF bad # {}
        THEN LET i == CHOOSE j \in bad : \A k \in bad : j <= k
             IN  Raise(parsed[i].exc, parsed[i].msg)
        ELSE Ok([i \in 1..n |-> parsed[i].val[1]])

\* The loop returning what it parsed before the first entry that fails.
ParseAll_KeepPrefix(retrieval_results) ==
    LET parsed == [i \in 1..Len(retrieval_results) |->
                      _parse_retrieve_result(retrieval_results[i])]
        bad == {i \in 1..Len(parsed) : parsed[i].exc # ""}
        last == IF bad = {} THEN Len(parsed)
                ELSE (CHOOSE j \in bad : \A k \in bad : j <= k) - 1
    IN  Ok([i \in 1..last |-> parsed[i].val[1]])

\* The list comprehension over the raw entries: the first entry that fails
\* to parse raises out of the comprehension.
ParseAll(retrieval_results) ==
    LET parsed == [i \in 1..Len(retrieval_results) |->
                      _parse_retrieve_result(retrieval_results[i])]
        bad == {i \in 1..Len(parsed) : parsed[i].exc # ""}
    IN  IF bad # {}
        THEN LET i == CHOOSE j \in bad : \A k \in bad : j <= k
             IN  Raise(parsed[i].exc, parsed[i].msg)
        ELSE Ok([i \in 1..Len(parsed) |-> parsed[i].val[1]])

\* The try body of retrieve_job_openings once client.retrieve has returned.
RetrieveBody(response) ==
    LET retrieval_results == IF response.retrievalResults = None THEN << >>
                             ELSE response.retrievalResults[1]
        job_results == ParseAll(retrieval_results)
    IN  IF job_results.exc # "" THEN job_results
        ELSE JobOpeningsResponse(job_results.val[1],
                                 Some(Len(job_results.val[1])))

\* The except clauses of retrieve_job_openings: e is [exc, msg] raised in
\* the try body, code/message are the Optional Error fields of a ClientError.
RetrieveExcept(e, code, message) ==
    IF e.exc = "ClientError"
    THEN Raise("BedrockClientError",
               "AWS error during retrieval: "
                   \o (IF code = None THEN "Unknown" ELSE code[1])
                   \o " - "
                   \o (IF message = None THEN e.msg ELSE message[1]))
    ELSE IF e.exc = "BotoCoreError"
    THEN Raise("BedrockClientError",
               "Failed to retrieve job openings: " \o e.msg)
    ELSE Raise("BedrockClientError",
               "Unexpected error during retrieval: " \o e.msg)

\* retrieve_job_openings.  outcome is what client.retrieve does:
\* [kind |-> "response", retrievalResults], or kind "ClientError" (with the
\* Optional code and message of e.response["Error"] and str(e)),
\* "BotoCoreError" or "Exception" (with str(e)).
retrieve_job_openings(self, query_text, max_results, outcome) ==
    LET body == IF outcome.kind = "response" THEN RetrieveBody(outcome)
                ELSE Raise(outcome.kind, outcome.str)
    IN  IF body.exc = "" THEN body
        ELSE RetrieveExcept(body, outcome.code, outcome.message)

----------------------------------------------------------------------------
(* src/src/server.py: the formatter                                        *)

NoResultsMessage == "No job openings found matching your query."
FailedMessage == "Failed to retrieve job openings. Please try again later."
UnexpectedMessage == "An unexpected error occurred. Please try again later."

\* f"{score * 100:.1f}" for a score in thousandths
FormatPct(score) == ToString(score \div 10) \o "." \o ToString(score % 10)

Header(n) == "Found " \o ToString(n) \o " job opening(s):\n"
BlockMarker(idx) == "\n--- Job Opening #" \o ToString(idx) \o " ---"

\* The score line guarded by `if result.score:` instead of `is not None`.
ScoreLines_Truthy(result) ==
    IF result.score # None /\ result.score[1] # 0
    THEN << "Relevance Score: " \o FormatPct(result.score[1]) \o "%" >>
    ELSE << >>

ScoreLines(result) ==
    IF result.score # None
    THEN << "Relevance Score: " \o FormatPct(result.score[1]) \o "%" >>
    ELSE << >>

MetadataLines(result) ==
    IF Len(result.metadata) > 0
    THEN << "\nMetadata:" >> \o
         [i \in 1..Len(result.metadata) |->
             "  - " \o result.metadata[i][1] \o ": " \o result.metadata[i][2]]
    ELSE << >>

\* A dict attribute is truthy when it is not None and not empty.
DictTruthy(d) == d # None /\ Len(d[1]) > 0

SourceLines(result) ==
    IF result.source # None
    THEN LET source == result.source[1]
         IN  << "\nSource Type: " \o source.type >> \o
             (IF DictTruthy(source.s3_location)
              THEN << "Location: " \o DictGet(source.s3_location[1], "uri", "N/A") >>
              ELSE IF DictTruthy(source.web_location)
              THEN << "URL: " \o DictGet(source.web_location[1], "url", "N/A") >>
              ELSE << >>)
    ELSE << >>

\* The lines one iteration of the for loop appends.
BlockLines(idx, result) ==
    << BlockMarker(idx) >> \o ScoreLines(result)
        \o << "\n" \o result.content >>
        \o MetadataLines(result) \o SourceLines(result) \o << "" >>

RECURSIVE AllBlockLines(_, _)
AllBlockLines(results, idx) ==
    IF idx > Len(results) THEN << >>
    ELSE BlockLines(idx, results[idx]) \o AllBlockLines(results, idx + 1)

_format_job_openings_response(response) ==
    IF response.total_results = 0
    THEN NoResultsMessage
    ELSE Join(<< Header(response.total_results) >>
                  \o AllBlockLines(response.results, 1))

----------------------------------------------------------------------------
(* src/src/server.py: get_bedrock_client and get_job_openings              *)

\* get_job_openings without the `except Exception` clause.
ToolExcept_OnlyBedrock(e) ==
    IF e.exc = "BedrockClientError"
    THEN [kind |-> "return", value |-> FailedMessage]
    ELSE [kind |-> "raise", value |-> e.exc]

\* get_job_openings returning str(e) to the caller.
ToolExcept_LeakCause(e) ==
    IF e.exc = "BedrockClientError"
    THEN [kind |-> "return", value |-> "Failed to retrieve job openings: " \o e.msg]
    ELSE [kind |-> "return", value |-> UnexpectedMessage]

\* get_job_openings with `except Exception` placed first.
ToolExcept_GenericFirst(e) ==
    [kind |-> "return", value |-> UnexpectedMessage]

\* get_job_openings with one handler that reports every exception as a
\* retrieval failure.
ToolExcept_AllFailed(e) ==
    [kind |-> "return", value |-> FailedMessage]

\* The except clauses of get_job_openings: e is the exception raised in the
\* try block.  The invocation ends with [kind, value]: kind "return" with
\* the returned string, or kind "raise" with the class that escaped.
ToolExcept(e) ==
    IF e.exc = "BedrockClientError"
    THEN [kind |-> "return", value |-> FailedMessage]
    ELSE [kind |-> "return", value |-> UnexpectedMessage]

NoException == [exc |-> "", msg |-> "", at |-> ""]
Running == [kind |-> "", value |-> ""]

\* Inputs of the tool.
QueryTexts == {"", "engineer"}
MaxResultsInputs == {0, 1, MaxResultsLimit, MaxResultsLimit + 1}

\* Knowledge-base ids the environment may hold.
KnowledgeBases == {"kb-1", "kb-2"}

\* Raw entries the service returns in the server specification.
EntryFull ==
    [content |-> Some([isdict |-> TRUE,
                       items |-> << <<"text", "Software Engineer - Remote position">> >>]),
     score |-> Some(950),
     metadata |-> Some(<< <<"job_id", "12345">> >>),
     location |-> Some([type |-> Some("S3"),
                        s3Location |-> Some(<< <<"uri", "s3://bucket/key">> >>),
                        webLocation |-> None])]
EntryMinimal ==
    [content |-> None, score |-> None, metadata |-> None, location |-> None]
EntryBadScore ==
    [content |-> Some([isdict |-> TRUE, items |-> << <<"text", "Job 2">> >>]),
     score |-> Some(1500), metadata |-> None, location |-> None]
EntryBadContent ==
    [content |-> Some([isdict |-> FALSE, items |-> << >>]),
     score |-> None, metadata |-> None, location |-> None]
ServerEntries == {EntryFull, EntryMinimal}
\* Responses holding an entry that does not parse.
MalformedResponses == { <<EntryFull, EntryBadScore>>, <<EntryBadContent, EntryMinimal>> }

SeqsUpTo(S, n) == UNION {[1..k -> S] : k \in 0..n}

ServiceResponse(retrievalResults) ==
    [kind |-> "response", retrievalResults |-> retrievalResults,
     code |-> None, message |-> None, str |-> ""]
ServiceError(kind, code, message, str) ==
    [kind |-> kind, retrievalResults |-> None,
     code |-> code, message |-> message, str |-> str]

\* What client.retrieve may do with a request.
ServiceOutcomes ==
    {ServiceResponse(None)}
    \cup {ServiceResponse(Some(es)) : es \in SeqsUpTo(ServerEntries, MaxEntries)}
    \cup {ServiceResponse(Some(es)) : es \in MalformedResponses}
    \cup {ServiceError("ClientError", Some("ValidationException"),
                       Some("Invalid KB ID"),
                       "An error occurred (ValidationException)"),
          ServiceError("ClientError", None, None, "An error occurred (Unknown)"),
          ServiceError("BotoCoreError", None, None, "An unspecified error occurred"),
          ServiceError("Exception", None, None, "connection reset")}

ServerInit ==
    /\ _bedrock_client = None
    /\ settings_cache = None
    /\ env \in {None} \cup {Some(kb) : kb \in KnowledgeBases}
    /\ constructed = 0
    /\ calls = 0
    /\ pc = [t \in Callers |-> "idle"]
    /\ arg = [t \in Callers |-> [query_text |-> "", max_results |-> 0]]
    /\ settings = [t \in Callers |-> None]
    /\ built = [t \in Callers |-> None]
    /\ client = [t \in Callers |-> None]
    /\ requests = [t \in Callers |-> << >>]
    /\ service = [t \in Callers |-> None]
    /\ resp = [t \in Callers |-> None]
    /\ raised = [t \in Callers |-> NoException]
    /\ ret = [t \in Callers |-> Running]

Init ==
    /\ ServerInit
    /\ pstage = "off"
    /\ pin = << >>
    /\ pout = << >>

\* The environment is edited (a setting is removed, added or changed).
SetEnvironment(e) ==
    /\ e # env
    /\ env' = e
    /\ UNCHANGED <<_bedrock_client, settings_cache, constructed, calls, pc, arg,
                   settings, built, client, requests, service, resp, raised, ret>>
    /\ UNCHANGED pure_vars

\* get_job_openings is entered and JobOpeningQuery validates the input.
Call(t, query_text, max_results) ==
    /\ pc[t] \in {"idle", "done"}
    /\ calls < MaxCalls
    /\ calls' = calls + 1
    /\ arg' = [arg EXCEPT ![t] = [query_text |-> query_text,
                                  max_results |-> max_results]]
    /\ settings' = [settings EXCEPT ![t] = None]
    /\ built' = [built EXCEPT ![t] = None]
    /\ client' = [client EXCEPT ![t] = None]
    /\ requests' = [requests EXCEPT ![t] = << >>]
    /\ service' = [service EXCEPT ![t] = None]
    /\ resp' = [resp EXCEPT ![t] = None]
    /\ LET query == JobOpeningQuery(query_text, max_results)
       IN  IF query.exc # ""
           THEN /\ raised' = [raised EXCEPT ![t] =
                                 [exc |-> query.exc, msg |-> query.msg,
                                  at |-> "validate"]]
                /\ ret' = [ret EXCEPT ![t] = ToolExcept(query)]
                /\ pc' = [pc EXCEPT ![t] = "done"]
           ELSE /\ raised' = [raised EXCEPT ![t] = NoException]
                /\ ret' = [ret EXCEPT ![t] = Running]
                /\ pc' = [pc EXCEPT ![t] = "get_client"]
    /\ UNCHANGED <<_bedrock_client, settings_cache, env, constructed>>
    /\ UNCHANGED pure_vars

\* get_bedrock_client without the `is None` test: it constructs every time.
TestClient_AlwaysConstruct(t) ==
    /\ pc[t] = "get_client"
    /\ pc' = [pc EXCEPT ![t] = "construct"]
    /\ UNCHANGED <<_bedrock_client, settings_cache, env, constructed, calls, arg,
                   settings, built, client, requests, service, resp, raised, ret>>
    /\ UNCHANGED pure_vars

\* get_bedrock_client: the test `_bedrock_client is None`; when it is set,
\* the function returns it.
TestClient(t) ==
    /\ pc[t] = "get_client"
    /\ IF _bedrock_client = None
       THEN /\ pc' = [pc EXCEPT ![t] = "construct"]
            /\ UNCHANGED client
       ELSE /\ pc' = [pc EXCEPT ![t] = "retrieve"]
            /\ client' = [client EXCEPT ![t] = _bedrock_client]
    /\ UNCHANGED <<_bedrock_client, settings_cache, env, constructed, calls, arg,
                   settings, built, requests, service, resp, raised, ret>>
    /\ UNCHANGED pure_vars

\* BedrockClient.__init__ calls get_settings(): the lru_cache lookup.  A hit
\* returns the cached Settings; a miss goes on to call Settings().
LookupSettings(t) ==
    /\ pc[t] = "construct"
    /\ IF settings_cache # None
       THEN /\ settings' = [settings EXCEPT ![t] = settings_cache]
            /\ pc' = [pc EXCEPT ![t] = "boto_client"]
       ELSE /\ pc' = [pc EXCEPT ![t] = "read_settings"]
            /\ UNCHANGED settings
    /\ UNCHANGED <<_bedrock_client, settings_cache, env, constructed, calls, arg,
                   built, client, requests, service, resp, raised, ret>>
    /\ UNCHANGED pure_vars

\* get_settings() on a miss: Settings() reads the environment.  Without the
\* required settings it raises ValidationError, which leaves __init__,
\* get_bedrock_client and the try block of get_job_openings.
ReadSettings(t) ==
    /\ pc[t] = "read_settings"
    /\ IF env = None
       THEN LET e == Raise("ValidationError", ValidationErrorMsg(2, "Settings"))
            IN  /\ raised' = [raised EXCEPT ![t] =
                                 [exc |-> e.exc, msg |-> e.msg, at |-> "construct"]]
                /\ ret' = [ret EXCEPT ![t] = ToolExcept(e)]
                /\ pc' = [pc EXCEPT ![t] = "done"]
                /\ UNCHANGED settings
       ELSE /\ settings' = [settings EXCEPT ![t] = env]
            /\ pc' = [pc EXCEPT ![t] = "cache_settings"]
            /\ UNCHANGED <<raised, ret>>
    /\ UNCHANGED <<_bedrock_client, settings_cache, env, constructed, calls, arg,
                   built, client, requests, service, resp>>
    /\ UNCHANGED pure_vars

\* get_settings() on a miss, after Settings() has returned: lru_cache stores
\* the result unless the key was added during the call, and returns the
\* result it computed.
CacheSettings(t) ==
    /\ pc[t] = "cache_settings"
    /\ settings_cache' = IF settings_cache = None THEN settings[t]
                         ELSE settings_cache
    /\ pc' = [pc EXCEPT ![t] = "boto_client"]
    /\ UNCHANGED <<_bedrock_client, env, constructed, calls, arg,
                   settings, built, client, requests, service, resp, raised, ret>>
    /\ UNCHANGED pure_vars

\* get_bedrock_client assigning the global before __init__ has finished, so
\* a failed construction leaves a handle behind.
CreateBotoClient_Latched(t, boto_ok) ==
    /\ pc[t] = "boto_client"
    /\ constructed' = constructed + 1
    /\ built' = [built EXCEPT ![t] =
                    Some([id |-> constructed + 1,
                          knowledge_base_id |-> settings[t][1]])]
    /\ IF boto_ok
       THEN /\ pc' = [pc EXCEPT ![t] = "store_client"]
            /\ UNCHANGED <<_bedrock_client, raised, ret>>
       ELSE LET e == Raise("BedrockClientError",
                           "Failed to initialize Bedrock client: boto")
            IN  /\ _bedrock_client' = Some([id |-> constructed + 1,
                                            knowledge_base_id |-> settings[t][1]])
                /\ raised' = [raised EXCEPT ![t] =
                                 [exc |-> e.exc, msg |-> e.msg, at |-> "construct"]]
                /\ ret' = [ret EXCEPT ![t] = ToolExcept(e)]
                /\ pc' = [pc EXCEPT ![t] = "done"]
    /\ UNCHANGED <<settings_cache, env, calls, arg,
                   settings, client, requests, service, resp>>
    /\ UNCHANGED pure_vars

\* BedrockClient.__init__ after get_settings(): knowledge_base_id is taken
\* from the settings and boto3.client(...) returns (the object is built) or
\* raises (boto_ok), which __init__ re-raises as BedrockClientError.
CreateBotoClient(t, boto_ok) ==
    /\ pc[t] = "boto_client"
    /\ IF boto_ok
       THEN /\ constructed' = constructed + 1
            /\ built' = [built EXCEPT ![t] =
                            Some([id |-> constructed + 1,
                                  knowledge_base_id |-> settings[t][1]])]
            /\ pc' = [pc EXCEPT ![t] = "store_client"]
            /\ UNCHANGED <<raised, ret>>
       ELSE LET e == Raise("BedrockClientError",
                           "Failed to initialize Bedrock client: boto")
            IN  /\ raised' = [raised EXCEPT ![t] =
                                 [exc |-> e.exc, msg |-> e.msg, at |-> "construct"]]
                /\ ret' = [ret EXCEPT ![t] = ToolExcept(e)]
                /\ pc' = [pc EXCEPT ![t] = "done"]
                /\ UNCHANGED <<constructed, built>>
    /\ UNCHANGED <<_bedrock_client, settings_cache, env, calls, arg,
                   settings, client, requests, service, resp>>
    /\ UNCHANGED pure_vars

\* get_bedrock_client: the assignment `_bedrock_client = ...` of the object
\* BedrockClient() returned.
StoreClient(t) ==
    /\ pc[t] = "store_client"
    /\ _bedrock_client' = built[t]
    /\ pc' = [pc EXCEPT ![t] = "return_client"]
    /\ UNCHANGED <<settings_cache, env, constructed, calls, arg,
                   settings, built, client, requests, service, resp, raised, ret>>
    /\ UNCHANGED pure_vars

\* get_bedrock_client: `return _bedrock_client` after the assignment.
ReturnClient(t) ==
    /\ pc[t] = "return_client"
    /\ client' = [client EXCEPT ![t] = _bedrock_client]
    /\ pc' = [pc EXCEPT ![t] = "retrieve"]
    /\ UNCHANGED <<_bedrock_client, settings_cache, env, constructed, calls, arg,
                   settings, built, requests, service, resp, raised, ret>>
    /\ UNCHANGED pure_vars

\* retrieve_job_openings: self.client.retrieve(...) is called with the
\* request; the caller waits for the service.
SendRequest(t) ==
    /\ pc[t] = "retrieve"
    /\ requests' = [requests EXCEPT ![t] =
           << RetrieveRequest(client[t][1], arg[t].query_text,
                              arg[t].max_results) >>]
    /\ pc' = [pc EXCEPT ![t] = "await_response"]
    /\ UNCHANGED <<_bedrock_client, settings_cache, env, constructed, calls, arg,
                   settings, built, client, service, resp, raised, ret>>
    /\ UNCHANGED pure_vars

\* client.retrieve returns or raises (outcome); retrieve_job_openings
\* parses the answer and, when it returns, get_job_openings formats the
\* response and returns the text.
ReceiveAnswer(t, outcome) ==
    /\ pc[t] = "await_response"
    /\ LET self == client[t][1]
           query == arg[t]
           r == retrieve_job_openings(self, query.query_text,
                                      query.max_results, outcome)
       IN  /\ requests' = [requests EXCEPT ![t] =
                  RetrieveRequests(requests[t], self, query.query_text,
                                   query.max_results, outcome)]
           /\ service' = [service EXCEPT ![t] = Some(outcome)]
           /\ IF r.exc = ""
              THEN /\ resp' = [resp EXCEPT ![t] = r.val]
                   /\ ret' = [ret EXCEPT ![t] =
                          [kind |-> "return",
                           value |-> _format_job_openings_response(r.val[1])]]
                   /\ UNCHANGED raised
              ELSE /\ raised' = [raised EXCEPT ![t] =
                          [exc |-> r.exc, msg |-> r.msg, at |-> "retrieve"]]
                   /\ ret' = [ret EXCEPT ![t] = ToolExcept(r)]
                   /\ UNCHANGED resp
    /\ pc' = [pc EXCEPT ![t] = "done"]
    /\ UNCHANGED <<_bedrock_client, settings_cache, env, constructed, calls, arg,
                   settings, built, client>>
    /\ UNCHANGED pure_vars

Next ==
    \/ \E e \in {None} \cup {Some(kb) : kb \in KnowledgeBases} : SetEnvironment(e)
    \/ \E t \in Callers, q \in QueryTexts, m \in MaxResultsInputs : Call(t, q, m)
    \/ \E t \in Callers : TestClient(t)
    \/ \E t \in Callers : LookupSettings(t)
    \/ \E t \in Callers : ReadSettings(t)
    \/ \E t \in Callers : CacheSettings(t)
    \/ \E t \in Callers, boto_ok \in BOOLEAN : CreateBotoClient(t, boto_ok)
    \/ \E t \in Callers : StoreClient(t)
    \/ \E t \in Callers : ReturnClient(t)
    \/ \E t \in Callers : SendRequest(t)
    \/ \E t \in Callers, outcome \in ServiceOutcomes : ReceiveAnswer(t, outcome)

Spec == Init /\ [][Next]_vars

----------------------------------------------------------------------------
(* Invocations that do not overlap: the tool is a coroutine without an     *)
(* await, so on one event loop an invocation starts only when no other is  *)
(* inside get_job_openings.                                                *)

SeqCall(t, query_text, max_results) ==
    /\ \A u \in Callers \ {t} : pc[u] \in {"idle", "done"}
    /\ Call(t, query_text, max_results)

SeqNext ==
    \/ \E e \in {None} \cup {Some(kb) : kb \in KnowledgeBases} : SetEnvironment(e)
    \/ \E t \in Callers, q \in QueryTexts, m \in MaxResultsInputs : SeqCall(t, q, m)
    \/ \E t \in Callers : TestClient(t)
    \/ \E t \in Callers : LookupSettings(t)
    \/ \E t \in Callers : ReadSettings(t)
    \/ \E t \in Callers : CacheSettings(t)
    \/ \E t \in Callers, boto_ok \in BOOLEAN : CreateBotoClient(t, boto_ok)
    \/ \E t \in Callers : StoreClient(t)
    \/ \E t \in Callers : ReturnClient(t)
    \/ \E t \in Callers : SendRequest(t)
    \/ \E t \in Callers, outcome \in ServiceOutcomes : ReceiveAnswer(t, outcome)

SpecSeq == Init /\ [][SeqNext]_vars

----------------------------------------------------------------------------
(* _parse_retrieve_result applied to one raw entry.                        *)

RawContents ==
    {None,
     Some([isdict |-> TRUE, items |-> << >>]),
     Some([isdict |-> TRUE, items |-> << <<"text", "Minimal job posting">> >>]),
     Some([isdict |-> FALSE, items |-> << >>])}
RawScores == {None, Some(0), Some(950), Some(ScoreMax), Some(ScoreMax + 500)}
RawMetadata == {None, Some(<< >>), Some(<< <<"job_id", "12345">> >>)}
RawDicts(key, value) == {None, Some(<< >>), Some(<< <<key, value>> >>)}
RawLocations ==
    {None} \cup
    {Some([type |-> ty, s3Location |-> s3, webLocation |-> web]) :
        ty \in {None, Some("S3"), Some("WEB")},
        s3 \in RawDicts("uri", "s3://bucket/key"),
        web \in RawDicts("url", "https://example.com/job")}
RawEntries ==
    [content : RawContents, score : RawScores,
     metadata : RawMetadata, location : RawLocations]

ParseInit ==
    /\ ServerInit
    /\ pstage = "input"
    /\ pin \in RawEntries
    /\ pout = << >>

ParseEntry ==
    /\ pstage = "input"
    /\ pout' = _parse_retrieve_result(pin)
    /\ pstage' = "parsed"
    /\ UNCHANGED pin
    /\ UNCHANGED server_vars

ParseNext == ParseEntry

SpecParse == ParseInit /\ [][ParseNext]_vars

----------------------------------------------------------------------------
(* JobOpeningsResponse constructed from a results list and a total, then   *)
(* formatted.                                                              *)

\* Results the models accept, as parsed from raw entries.
SampleResults ==
    {_parse_retrieve_result(e).val[1] :
        e \in {EntryFull, EntryMinimal,
               [content |-> Some([isdict |-> TRUE,
                                  items |-> << <<"text", "Senior Data Scientist position">> >>]),
                score |-> Some(0),
                metadata |-> None,
                location |-> Some([type |-> None, s3Location |-> None,
                                   webLocation |-> Some(<< <<"url", "https://example.com/job">> >>)])]}}

\* total_results as given to the constructor: omitted, negative, or a count.
TotalArguments == {None} \cup {Some(n) : n \in -1..(MaxEntries + 1)}

ResponseInit ==
    /\ ServerInit
    /\ pstage = "input"
    /\ pin \in [results : SeqsUpTo(SampleResults, MaxEntries),
                total : TotalArguments]
    /\ pout = << >>

BuildResponse ==
    /\ pstage = "input"
    /\ pout' = [built |-> JobOpeningsResponse(pin.results, pin.total), text |-> ""]
    /\ pstage' = "built"
    /\ UNCHANGED pin
    /\ UNCHANGED server_vars

FormatResponse ==
    /\ pstage = "built"
    /\ pout.built.exc = ""
    /\ pout' = [pout EXCEPT !.text = _format_job_openings_response(pout.built.val[1])]
    /\ pstage' = "formatted"
    /\ UNCHANGED pin
    /\ UNCHANGED server_vars

ResponseNext == BuildResponse \/ FormatResponse

SpecResponse == ResponseInit /\ [][ResponseNext]_vars

----------------------------------------------------------------------------
(* retrieve_job_openings on a service response, then the formatter: the    *)
(* path of get_job_openings from raw entries to the returned text.         *)

PipelineScores == {None, Some(0), Some(950)}
PipelineLocations ==
    {None,
     Some([type |-> Some("S3"),
           s3Location |-> Some(<< <<"uri", "s3://bucket/key">> >>),
           webLocation |-> None]),
     Some([type |-> None,
           s3Location |-> None,
           webLocation |-> Some(<< <<"url", "https://example.com/job">> >>)]),
     Some([type |-> Some("S3"),
           s3Location |-> Some(<< <<"uri", "s3://bucket/key">> >>),
           webLocation |-> Some(<< <<"url", "https://example.com/job">> >>)]),
     Some([type |-> Some("WEB"),
           s3Location |-> Some(<< >>),
           webLocation |-> Some(<< <<"url", "https://example.com/job">> >>)]),
     Some([type |-> Some("S3"),
           s3Location |-> Some(<< >>),
           webLocation |-> None])}
PipelineEntries ==
    [content : {Some([isdict |-> TRUE, items |-> << <<"text", "Job description">> >>])},
     score : PipelineScores,
     metadata : {None},
     location : PipelineLocations]

\* The client the pipeline calls retrieve_job_openings on.
PipelineClient == [id |-> 1, knowledge_base_id |-> "kb-1"]

PipelineInit ==
    /\ ServerInit
    /\ pstage = "input"
    /\ pin \in SeqsUpTo(PipelineEntries, MaxEntries)
    /\ pout = << >>

RetrieveResults ==
    /\ pstage = "input"
    /\ pout' = [built |-> retrieve_job_openings(PipelineClient, "engineer", 10,
                                                ServiceResponse(Some(pin))),
                text |-> ""]
    /\ pstage' = "built"
    /\ UNCHANGED pin
    /\ UNCHANGED server_vars

PipelineNext == RetrieveResults \/ FormatResponse

SpecPipeline == PipelineInit /\ [][PipelineNext]_vars

----------------------------------------------------------------------------
(* Properties.                                                             *)

\* Entries in the service's retrievalResults list, 0 when the key is absent.
ServiceCount(outcome) ==
    IF outcome.retrievalResults = None THEN 0
    ELSE Len(outcome.retrievalResults[1])

\* C1: the response retrieve_job_openings returns has total_results equal to
\* len(results), and both equal the number of entries the service returned
\* (0 when retrievalResults is absent).
C1_TotalEqualsServiceCount ==
    \A t \in Callers :
        resp[t] # None =>
            /\ resp[t][1].total_results = Len(resp[t][1].results)
            /\ Len(resp[t][1].results) = ServiceCount(service[t][1])

C1_Witness ==
    \E t \in Callers :
        /\ resp[t] # None
        /\ resp[t][1].total_results >= 2
        /\ ServiceCount(service[t][1]) >= 2

\* C2: every JobOpeningsResponse construction succeeds, whatever
\* total_results is given (equal, smaller, larger, negative, omitted), and
\* stores the true count of results.
C2_ConstructionStoresTrueCount ==
    pstage \in {"built", "formatted"} =>
        /\ pout.built.exc = ""
        /\ pout.built.val[1].total_results = Len(pin.results)

\* The inputs get_job_openings must reject.
InvalidInput(a) ==
    \/ Len(a.query_text) = 0
    \/ a.max_results < 1
    \/ a.max_results > 100

\* C3: an invocation with an empty query_text or max_results outside 1..100
\* fails validation and never issues the search request; every other
\* invocation (1 and 100 included) passes validation.
C3_ValidationBeforeNetwork ==
    \A t \in Callers :
        pc[t] # "idle" =>
            /\ InvalidInput(arg[t]) =>
                   /\ pc[t] = "done"
                   /\ raised[t].exc = "ValidationError"
                   /\ raised[t].at = "validate"
                   /\ requests[t] = << >>
                   /\ service[t] = None
                   /\ client[t] = None
            /\ ~InvalidInput(arg[t]) => raised[t].at # "validate"

C3_Witness ==
    \E t, u \in Callers :
        /\ pc[t] = "done" /\ arg[t].max_results = 101 /\ requests[t] = << >>
        /\ _bedrock_client # None
        /\ pc[u] = "done" /\ arg[u].max_results = 100 /\ Len(requests[u]) = 1

\* The steps of one caller inside get_job_openings.
CallerStep(t) ==
    \/ TestClient(t)
    \/ LookupSettings(t)
    \/ ReadSettings(t)
    \/ CacheSettings(t)
    \/ \E boto_ok \in BOOLEAN : CreateBotoClient(t, boto_ok)
    \/ StoreClient(t)
    \/ ReturnClient(t)
    \/ SendRequest(t)
    \/ \E outcome \in ServiceOutcomes : ReceiveAnswer(t, outcome)

\* C4: get_job_openings never throws past its boundary: every invocation
\* that has ended, whatever failed in it, ended by returning a string, and
\* an invocation that has not ended can take its next step.
C4_AlwaysReturnsString ==
    \A t \in Callers :
        /\ pc[t] = "done" => ret[t].kind = "return" /\ ret[t].value \in STRING
        /\ pc[t] \notin {"idle", "done"} => ENABLED CallerStep(t)

C4_Witness ==
    \E t \in Callers :
        /\ pc[t] = "done"
        /\ raised[t].exc = "ValidationError"
        /\ raised[t].at = "construct"
        /\ ret[t].kind = "return"

\* C5: every failure of the search call is a BedrockClientError whose cause
\* contains the service error code (ClientError) or the failure description
\* (BotoCoreError, other exceptions); the tool returns the same fixed
\* string for each, holding no part of the cause.
C5_RetrievalFailureFixedString ==
    \A t \in Callers :
        (pc[t] = "done" /\ service[t] # None /\ resp[t] = None) =>
            LET o == service[t][1]
                e == raised[t]
            IN  /\ e.exc = "BedrockClientError"
                /\ e.at = "retrieve"
                /\ o.kind = "ClientError" =>
                       Contains(e.msg, IF o.code = None THEN "Unknown" ELSE o.code[1])
                /\ o.kind \in {"BotoCoreError", "Exception"} => Contains(e.msg, o.str)
                /\ ret[t] = [kind |-> "return",
                             value |-> "Failed to retrieve job openings. Please try again later."]
                /\ o.code # None => ~Contains(ret[t].value, o.code[1])
                /\ o.message # None => ~Contains(ret[t].value, o.message[1])
                /\ o.str # "" => ~Contains(ret[t].value, o.str)

C5_Witness ==
    \E t, u \in Callers :
        /\ pc[t] = "done" /\ service[t] # None
        /\ service[t][1].kind = "ClientError"
        /\ service[t][1].code = Some("ValidationException")
        /\ pc[u] = "done" /\ service[u] # None
        /\ service[u][1].kind = "BotoCoreError"
        /\ ret[t] = ret[u]

\* C6 as stated: a configuration error or a client-construction error
\* raised during an invocation propagates out of get_job_openings.
C6_ConstructionErrorsPropagate ==
    \A t \in Callers :
        (pc[t] = "done" /\ raised[t].at = "construct") => ret[t].kind = "raise"

\* C6 amended: a configuration error or a client-construction error raised
\* during an invocation is caught at the boundary and converted to a fixed
\* string (the unexpected-error string for a configuration error, the
\* failed-to-retrieve string for a client-construction error); that
\* invocation issues no search request and yields no result.
C6_ConstructionErrorsConverted ==
    \A t \in Callers :
        (pc[t] = "done" /\ raised[t].at = "construct") =>
            /\ ret[t].kind = "return"
            /\ raised[t].exc = "BedrockClientError" =>
                   ret[t].value = "Failed to retrieve job openings. Please try again later."
            /\ raised[t].exc # "BedrockClientError" =>
                   ret[t].value = "An unexpected error occurred. Please try again later."
            /\ requests[t] = << >>
            /\ resp[t] = None
            /\ client[t] = None

C6_Witness ==
    \E t \in Callers :
        /\ pc[t] = "done"
        /\ raised[t].at = "construct"
        /\ raised[t].exc = "BedrockClientError"
        /\ ret[t].kind = "return"

\* C7: under any interleaving of callers of get_bedrock_client, BedrockClient
\* is constructed at most once and every caller receives the same handle.
C7_ConstructedAtMostOnce ==
    /\ constructed <= 1
    /\ \A t, u \in Callers :
           (client[t] # None /\ client[u] # None) => client[t] = client[u]

\* C8: a call of retrieve_job_openings issues exactly one search request,
\* carrying the bound knowledge-base id, the query text and max_results;
\* after a failure no further request is issued.
C8_ExactlyOneRequest ==
    \A t \in Callers :
        /\ Len(requests[t]) <= 1
        /\ (requests[t] # << >> \/ service[t] # None) =>
               requests[t] = << [knowledgeBaseId |-> client[t][1].knowledge_base_id,
                                 text |-> arg[t].query_text,
                                 numberOfResults |-> arg[t].max_results] >>
        /\ (pc[t] \in {"await_response", "done"} /\ client[t] # None) =>
               Len(requests[t]) = 1

C8_Witness ==
    \E t \in Callers :
        /\ pc[t] = "done"
        /\ service[t] # None
        /\ service[t][1].kind = "BotoCoreError"
        /\ Len(requests[t]) = 1
        /\ requests[t][1].numberOfResults = 100

\* s begins with prefix
StartsWith(s, prefix) ==
    Len(s) >= Len(prefix) /\ SubSeq(s, 1, Len(prefix)) = prefix

\* C9: the formatter returns exactly the sentinel for a response with zero
\* results, and otherwise a string that begins with "Found N job opening(s):"
\* followed by blocks numbered 1..N, N being the number of results.
C9_FormatHeaderCountsBlocks ==
    pstage = "formatted" =>
        LET results == pout.built.val[1].results
            N == Len(results)
        IN  IF N = 0
            THEN pout.text = "No job openings found matching your query."
            ELSE /\ StartsWith(pout.text, "Found " \o ToString(N) \o " job opening(s):")
                 /\ \A i \in 1..N :
                        Contains(pout.text, "--- Job Opening #" \o ToString(i) \o " ---")
                 /\ ~Contains(pout.text, "--- Job Opening #" \o ToString(N + 1) \o " ---")

\* Raw entries whose present fields are acceptable to JobOpeningResult.
WellFormed(e) ==
    /\ e.content # None => e.content[1].isdict
    /\ e.score # None => (e.score[1] >= 0 /\ e.score[1] <= 1000)

\* C10: a raw entry lacking any subset of content, score, metadata and
\* location parses without exception; each missing field takes its default
\* (content "", score None, metadata {}, source None) and each present field
\* takes the raw value (a location that is an empty mapping is left to C14).
C10_MissingFieldsTakeDefaults ==
    (pstage = "parsed" /\ WellFormed(pin)) =>
        /\ pout.exc = ""
        /\ LET r == pout.val[1]
           IN  /\ pin.content = None => r.content = ""
               /\ pin.content # None =>
                      r.content = (IF Len(pin.content[1].items) = 0 THEN ""
                                   ELSE pin.content[1].items[1][2])
               /\ r.score = pin.score
               /\ pin.metadata = None => r.metadata = << >>
               /\ pin.metadata # None => r.metadata = pin.metadata[1]
               /\ pin.location = None => r.source = None
               /\ (pin.location # None /\ pin.location[1] #
                       [type |-> None, s3Location |-> None, webLocation |-> None]) =>
                      /\ r.source # None
                      /\ pin.location[1].type # None =>
                             r.source[1].type = pin.location[1].type[1]
                      /\ r.source[1].s3_location = pin.location[1].s3Location
                      /\ r.source[1].web_location = pin.location[1].webLocation

C10_Witness ==
    /\ pstage = "parsed"
    /\ pin = [content |-> None, score |-> None, metadata |-> None, location |-> None]
    /\ pout.exc = ""
    /\ pout.val[1].score = None

\* C11: the results of a successful retrieve_job_openings call keep the
\* service's order and drop nothing: results[i] is the parse of the i-th raw
\* entry of retrievalResults.
C11_ResultsInServiceOrder ==
    \A t \in Callers :
        resp[t] # None =>
            LET raw == IF service[t][1].retrievalResults = None THEN << >>
                       ELSE service[t][1].retrievalResults[1]
                results == resp[t][1].results
            IN  /\ Len(results) = Len(raw)
                /\ \A i \in 1..Len(raw) :
                       results[i] = _parse_retrieve_result(raw[i]).val[1]

C11_Witness ==
    \E t \in Callers :
        /\ resp[t] # None
        /\ Len(resp[t][1].results) = 2
        /\ resp[t][1].results[1].content = "Software Engineer - Remote position"
        /\ resp[t][1].results[2].content = ""

\* Raw entries JobOpeningResult rejects or that cannot be read.
Malformed(e) ==
    \/ e.content # None /\ ~e.content[1].isdict
    \/ e.score # None /\ (e.score[1] < 0 \/ e.score[1] > 1000)

\* C12: no partial results: a call of retrieve_job_openings returns a
\* response holding a parsed result for every raw entry, or raises the
\* retrieval failure and returns nothing; one entry that fails to parse
\* fails the whole call and the entries that parsed are not returned.
C12_NoPartialResults ==
    \A t \in Callers :
        (pc[t] = "done" /\ service[t] # None) =>
            LET o == service[t][1]
                raw == IF o.retrievalResults = None THEN << >>
                       ELSE o.retrievalResults[1]
            IN  IF o.kind = "response" /\ \A i \in 1..Len(raw) : ~Malformed(raw[i])
                THEN /\ resp[t] # None
                     /\ Len(resp[t][1].results) = Len(raw)
                     /\ raised[t].exc = ""
                ELSE /\ resp[t] = None
                     /\ raised[t].exc = "BedrockClientError"
                     /\ ret[t].value = "Failed to retrieve job openings. Please try again later."

C12_Witness ==
    \E t \in Callers :
        /\ pc[t] = "done"
        /\ service[t] # None
        /\ service[t][1].retrievalResults = Some(<<EntryFull, EntryBadScore>>)
        /\ resp[t] = None
        /\ raised[t].exc = "BedrockClientError"

\* C13: a validation failure in get_job_openings ends the invocation with
\* the generic unexpected-error outcome, never with the "Failed to retrieve
\* job openings" message, and leaves the client state alone: the cached
\* handle is the same before and after and no client is constructed.
C13_ValidationFailureIsDistinct ==
    [][\A t \in Callers :
          (calls' # calls /\ pc'[t] = "done" /\ InvalidInput(arg'[t])) =>
              /\ raised'[t].exc = "ValidationError"
              /\ ret'[t] = [kind |-> "return",
                            value |-> "An unexpected error occurred. Please try again later."]
              /\ ~Contains(ret'[t].value, "Failed to retrieve job openings")
              /\ _bedrock_client' = _bedrock_client
              /\ constructed' = constructed
              /\ settings_cache' = settings_cache
              /\ client'[t] = None]_vars

C13_Witness ==
    \E t \in Callers :
        /\ pc[t] = "done"
        /\ InvalidInput(arg[t])
        /\ raised[t].at = "validate"
        /\ ret[t].value = "An unexpected error occurred. Please try again later."
        /\ _bedrock_client # None
        /\ constructed = 1

\* C14 as stated: a raw entry whose location field is present parses to a
\* result with a source whose type is the location's type ("UNKNOWN" when
\* omitted) and whose s3 and web sub-fields are copied as they are; source
\* is absent only when the raw entry has no location field.
C14_PresentLocationGivesSource ==
    (pstage = "parsed" /\ pout.exc = "") =>
        LET r == pout.val[1]
        IN  /\ pin.location # None =>
                   /\ r.source # None
                   /\ r.source[1].type = (IF pin.location[1].type = None THEN "UNKNOWN"
                                          ELSE pin.location[1].type[1])
                   /\ r.source[1].s3_location = pin.location[1].s3Location
                   /\ r.source[1].web_location = pin.location[1].webLocation
            /\ r.source = None => pin.location = None

\* Position of the first occurrence of sub in s, 0 when there is none.
IndexOf(s, sub) ==
    LET hits == {i \in 1..(Len(s) - Len(sub) + 1) : SubSeq(s, i, i + Len(sub) - 1) = sub}
    IN  IF hits = {} THEN 0 ELSE CHOOSE i \in hits : \A j \in hits : i <= j

\* The part of the formatted text that belongs to result i of n: from its
\* marker up to the next marker or the end.
BlockText(text, i, n) ==
    LET from == IndexOf(text, "--- Job Opening #" \o ToString(i) \o " ---")
        to == IF i < n
              THEN IndexOf(text, "--- Job Opening #" \o ToString(i + 1) \o " ---") - 1
              ELSE Len(text)
    IN  SubSeq(text, from, to)

\* C15 as stated: for a result with a source the type line is always
\* emitted; the Location line is emitted whenever s3_location is present;
\* the URL line is emitted only when s3_location is absent and web_location
\* is present; with both present no URL line is emitted.
C15_LocationLineWhenS3Present ==
    pstage = "formatted" =>
        LET results == pout.built.val[1].results
        IN  \A i \in 1..Len(results) :
                LET r == results[i]
                    block == BlockText(pout.text, i, Len(results))
                IN  r.source # None =>
                        /\ Contains(block, "Source Type: " \o r.source[1].type)
                        /\ r.source[1].s3_location # None => Contains(block, "Location: ")
                        /\ Contains(block, "URL: ") =>
                               (r.source[1].s3_location = None
                                    /\ r.source[1].web_location # None)
                        /\ (r.source[1].s3_location = None
                                /\ r.source[1].web_location # None) =>
                               Contains(block, "URL: ")

\* The percentage text of the scores the pipeline draws.
ExpectedPct(score) ==
    CASE score = 0 -> "0.0%"
      [] score = 950 -> "95.0%"
      [] score = 1000 -> "100.0%"

\* C16: a raw entry without a score parses to score None and its block has
\* no "Relevance Score" line; a raw entry with a score in 0..1, 0 included,
\* parses to that score and its block has the percentage line.
C16_MissingScoreIsNotZero ==
    pstage = "formatted" =>
        LET results == pout.built.val[1].results
        IN  /\ Len(results) = Len(pin)
            /\ \A i \in 1..Len(pin) :
                   LET block == BlockText(pout.text, i, Len(pin))
                   IN  IF pin[i].score = None
                       THEN /\ results[i].score = None
                            /\ ~Contains(block, "Relevance Score")
                       ELSE /\ results[i].score = pin[i].score
                            /\ Contains(block, "Relevance Score: "
                                                   \o ExpectedPct(pin[i].score[1]) \o "\n")

C16_Witness ==
    /\ pstage = "formatted"
    /\ Len(pin) = 2
    /\ pin[1].score = Some(0)
    /\ pin[2].score = None
    /\ Contains(pout.text, "Relevance Score: 0.0%")
    /\ ~Contains(BlockText(pout.text, 2, 2), "Relevance Score")

\* C17: over non-overlapping invocations the client is constructed lazily,
\* by an invocation that passed validation while no handle was cached, and
\* after a construction has succeeded it is never constructed again: at
\* most one successful construction, the cached handle (and so its
\* knowledge-base id) never changes once set, and every invocation uses it.
C17_ConstructedOnceAndReused ==
    [][/\ constructed' <= 1
       /\ _bedrock_client # None =>
              /\ _bedrock_client' = _bedrock_client
              /\ constructed' = constructed
       /\ constructed' # constructed =>
              \E t \in Callers :
                  /\ pc[t] = "boto_client"
                  /\ ~InvalidInput(arg[t])
                  /\ _bedrock_client = None
                  /\ built'[t] # None
       /\ _bedrock_client' # _bedrock_client =>
              \E t \in Callers :
                  /\ pc[t] = "store_client"
                  /\ ~InvalidInput(arg[t])
                  /\ _bedrock_client = None
                  /\ _bedrock_client' = built[t]
                  /\ _bedrock_client' # None
       /\ \A t \in Callers :
              client'[t] # None => client'[t] = _bedrock_client']_vars

C17_Witness ==
    /\ constructed = 1
    /\ calls = 2
    /\ \A t \in Callers :
           /\ pc[t] = "done"
           /\ client[t] # None
           /\ client[t] = _bedrock_client
           /\ Len(requests[t]) = 1

\* The positions of a caller inside BedrockClient().
InsideConstructor == {"construct", "read_settings", "cache_settings", "boto_client"}

\* C18: a failed client construction is not latched: the step in which
\* BedrockClient() raises does not touch the cached handle, which stays
\* unset (and a failed get_settings leaves the settings cache as it was),
\* and the invocation issues no search request; while the handle is unset
\* every invocation that passes validation goes on to construct again; a
\* construction that succeeds caches its handle.
C18_FailedConstructionNotLatched ==
    [][\A t \in Callers :
          /\ (pc[t] \in InsideConstructor /\ pc'[t] = "done") =>
                 /\ raised'[t].at = "construct"
                 /\ _bedrock_client' = _bedrock_client
                 /\ _bedrock_client = None => _bedrock_client' = None
                 /\ constructed' = constructed
                 /\ built'[t] = None
                 /\ requests'[t] = << >>
                 /\ service'[t] = None
                 /\ settings_cache' = settings_cache
          /\ (pc[t] = "get_client" /\ pc'[t] # "get_client" /\ _bedrock_client = None) =>
                 pc'[t] = "construct"
          /\ (pc[t] = "boto_client" /\ pc'[t] = "store_client") =>
                 /\ built'[t] # None
                 /\ constructed' = constructed + 1
          /\ (pc[t] = "store_client" /\ pc'[t] = "return_client") =>
                 /\ _bedrock_client' = built[t]
                 /\ _bedrock_client' # None]_vars

C18_Witness ==
    \E t, u \in Callers :
        /\ t # u
        /\ pc[t] = "done"
        /\ raised[t].at = "construct"
        /\ raised[t].exc = "BedrockClientError"
        /\ requests[t] = << >>
        /\ pc[u] = "return_client"
        /\ _bedrock_client # None
        /\ constructed = 1

====
